---- MODULE Spec2Model ----
(***************************************************************************)
(* Model of the context-aware worker pool (go/worker RunWorkerPool) of     *)
(* kdnetwork/code-snippet: the calling goroutine (clamp, channel creation, *)
(* worker start-up loop, collector), the workers, the dispatcher and the   *)
(* supervisor goroutine, with the context's cancellation as an external    *)
(* event.  Channels are bounded FIFO buffers with a closed flag.           *)
(***************************************************************************)
EXTENDS Bags, FiniteSets, Integers, Sequences, TLC

\* ---- bounds of the model ----
\* longest input slice, largest requested worker count, and how far below
\* zero the requested worker count ranges
MaxTasks == 2
MaxWorkersReq == 3
NegWorkersReq == 1
\* number of calls made on one GormDBCtx
MaxDbCalls == 3
\* the arguments of a Clamp call lie in -ClampRange .. ClampRange
ClampRange == 2

\* ---- values ----
NilErr == "nil"
CtxErr == "context canceled"
TaskErrs == {"errA"}

VARIABLES
  tasks,            \* the input slice: <<1, .., n>> (task i is identified by its index)
  maxWorkers,       \* the parameter, then the clamped value (line 17 reassigns it)
  reqWorkers,       \* the value of the parameter at call entry (history)
  cancelled,        \* ctx.Done() is closed
  pcMain,           \* position of the calling goroutine
  spawned,          \* iterations of the start-up loop done so far
  chansMade,        \* tasksChan and errorsChan exist
  tasksChan, tasksChanClosed,
  errorsChan, errorsChanClosed,
  wg,               \* sync.WaitGroup counter
  wstate,           \* per worker: "unborn", "select", "running", "send", "exited"
  wtask,            \* per worker: the task it dequeued last (0: none)
  wval,             \* per worker: the value fn returned, waiting to be sent
  dpc, di,          \* dispatcher: position and index of the next task to push
  spc,              \* supervisor: position
  errs,             \* the slice the call returns: [isNil, elems]
  panicked,         \* a send on / close of a closed channel happened
  invoked,          \* history: per task, number of fn invocations
  fnRets,           \* history: bag of the values fn returned
  sent,             \* history: sequence of the values sent on errorsChan
  stores,           \* the maps made so far: stores[id] is the value under the key fn counts in
  wstore,           \* per worker: the id of its store (0: not made yet)
  seen,             \* history: per invocation, in order: task, worker, store passed, count read
  outcome,          \* history: per task, the value fn returned for it ("none": not returned)
  sentTask,         \* history: the task whose outcome each element of sent is
  \* ---- a GormDBCtx (go/db) ----
  dbR, dbW,         \* the fields R and W: 0 is nil, n > 0 the n-th connection opened
  dbMode,           \* the field DBMode
  allowMemoryMode,  \* the field AllowMemoryMode
  dbOpens,          \* history: number of connections opened so far
  dbCalls,          \* history: number of calls made on the context
  dbPath,           \* history: the path argument of the last call (<<>>: it takes none)
  dbRet,            \* history: the error the last call returned ("none": no call yet)
  dbOp,             \* history: the method called last
  dbCloses,         \* history: per connection opened, the number of sqlDB.Close calls on it
  dialTimeoutSet,   \* the field dialTimeout is not nil
  numLeaked,        \* the field NumLeakedGoroutine
  dbPc,             \* the caller: "idle", or "select" inside ConnectToMySQL
  gstate,           \* per call: the goroutine ConnectToMySQL started in it
  gres,             \* per call: the result gorm.Open gave that goroutine
  resChan,          \* per call: the content of its resChan
  \* ---- a call of utils.Clamp ----
  clampArgs,        \* the arguments: [value, minValue, maxValue]
  clampDone,        \* the call has returned
  clampRet          \* the value it returned (0 before)

poolVars == <<tasks, maxWorkers, reqWorkers, cancelled, pcMain, spawned, chansMade,
              tasksChan, tasksChanClosed, errorsChan, errorsChanClosed, wg,
              wstate, wtask, wval, dpc, di, spc, errs, panicked, invoked, fnRets, sent,
              stores, wstore, seen, outcome, sentTask>>

dbVars == <<dbR, dbW, dbMode, allowMemoryMode, dbOpens, dbCalls, dbPath, dbRet,
            dbOp, dbCloses, dialTimeoutSet, numLeaked, dbPc, gstate, gres, resChan>>

clampVars == <<clampArgs, clampDone, clampRet>>

vars == <<poolVars, dbVars, clampVars>>

Max(a, b) == IF a >= b THEN a ELSE b
Min(a, b) == IF a <= b THEN a ELSE b

WorkerIds == 1..Max(MaxTasks, MaxWorkersReq)
TaskIds == 1..MaxTasks

tasksLen == Len(tasks)

\* a Clamp that takes the bounds in the other order
ClampBoundsSwapped(value, minValue, maxValue) == Min(Max(value, maxValue), minValue)

\* utils.Clamp: min(max(value, minValue), maxValue)
Clamp(value, minValue, maxValue) == Min(Max(value, minValue), maxValue)

\* a clamp that forgets the upper bound len(tasks)
ClampedWorkersNoUpper(n, mw) == Max(mw, 1)

\* the worker count line 17 computes: the arguments are passed as
\* (tasksLen, 1, maxWorkers)
ClampedWorkers(n, mw) == Clamp(n, 1, mw)

\* channels sized by the worker count instead of the task count
ChanCapWorkers == maxWorkers

\* channels that buffer one value
ChanCapSingle == Min(tasksLen, 1)

\* capacity of both channels: make(chan .., tasksLen)
ChanCap == tasksLen

\* the values an invocation of fn may return; fn receives ctx and may
\* return ctx.Err() once the context is cancelled
FnResults(c) == {NilErr} \cup TaskErrs \cup (IF c THEN {CtxErr} ELSE {})

\* a GormDBCtx nothing is called on
DbIdle ==
  /\ dbR = 0 /\ dbW = 0
  /\ dbMode = ""
  /\ allowMemoryMode = FALSE
  /\ dbOpens = 0
  /\ dbCalls = 0
  /\ dbPath = <<>>
  /\ dbRet = "none"
  /\ dbOp = "none"
  /\ dbCloses = <<>>
  /\ dialTimeoutSet = FALSE
  /\ numLeaked = 0
  /\ dbPc = "idle"
  /\ gstate = [c \in 1..MaxDbCalls |-> "unborn"]
  /\ gres = [c \in 1..MaxDbCalls |-> [db |-> 0, err |-> NilErr]]
  /\ resChan = [c \in 1..MaxDbCalls |-> <<>>]

\* no call of utils.Clamp on its own
ClampIdle ==
  /\ clampArgs = [value |-> 0, minValue |-> 0, maxValue |-> 0]
  /\ clampDone = FALSE
  /\ clampRet = 0

Init ==
  /\ DbIdle
  /\ ClampIdle
  /\ \E n \in 0..MaxTasks : tasks = [i \in 1..n |-> i]
  /\ maxWorkers \in (0 - NegWorkersReq)..MaxWorkersReq
  /\ reqWorkers = maxWorkers
  /\ cancelled \in BOOLEAN
  /\ pcMain = "entry"
  /\ spawned = 0
  /\ chansMade = FALSE
  /\ tasksChan = <<>> /\ tasksChanClosed = FALSE
  /\ errorsChan = <<>> /\ errorsChanClosed = FALSE
  /\ wg = 0
  /\ wstate = [w \in WorkerIds |-> "unborn"]
  /\ wtask = [w \in WorkerIds |-> 0]
  /\ wval = [w \in WorkerIds |-> NilErr]
  /\ dpc = "unborn" /\ di = 1
  /\ spc = "unborn"
  /\ errs = [isNil |-> TRUE, elems |-> <<>>]
  /\ panicked = FALSE
  /\ invoked = [t \in TaskIds |-> 0]
  /\ fnRets = EmptyBag
  /\ sent = <<>>
  /\ stores = <<>>
  /\ wstore = [w \in WorkerIds |-> 0]
  /\ seen = <<>>
  /\ outcome = [t \in TaskIds |-> "none"]
  /\ sentTask = <<>>

\* ---- the context ----
Cancel ==
  /\ ~cancelled
  /\ cancelled' = TRUE
  /\ UNCHANGED <<stores, wstore, seen, outcome, sentTask>>
  /\ UNCHANGED <<dbVars, clampVars>>
  /\ UNCHANGED <<tasks, maxWorkers, reqWorkers, pcMain, spawned, chansMade,
                 tasksChan, tasksChanClosed, errorsChan, errorsChanClosed, wg,
                 wstate, wtask, wval, dpc, di, spc, errs, panicked, invoked, fnRets, sent>>

\* ---- the calling goroutine ----
\* an entry without the early return for empty input
MainEntryNoEmptyCheck ==
  /\ pcMain = "entry"
  /\ maxWorkers' = ClampedWorkers(tasksLen, maxWorkers)
  /\ chansMade' = TRUE
  /\ pcMain' = "spawn"
  /\ UNCHANGED <<stores, wstore, seen, outcome, sentTask>>
  /\ UNCHANGED <<dbVars, clampVars>>
  /\ UNCHANGED <<tasks, reqWorkers, cancelled, spawned, errs,
                 tasksChan, tasksChanClosed, errorsChan, errorsChanClosed, wg,
                 wstate, wtask, wval, dpc, di, spc, panicked, invoked, fnRets, sent>>

\* lines 11-20: empty input returns []error{}; otherwise clamp and make the channels
MainEntry ==
  /\ pcMain = "entry"
  /\ IF tasksLen = 0
       THEN /\ errs' = [isNil |-> FALSE, elems |-> <<>>]
            /\ pcMain' = "done"
            /\ UNCHANGED <<maxWorkers, chansMade>>
       ELSE /\ maxWorkers' = ClampedWorkers(tasksLen, maxWorkers)
            /\ chansMade' = TRUE
            /\ pcMain' = "spawn"
            /\ UNCHANGED errs
  /\ UNCHANGED <<stores, wstore, seen, outcome, sentTask>>
  /\ UNCHANGED <<dbVars, clampVars>>
  /\ UNCHANGED <<tasks, reqWorkers, cancelled, spawned,
                 tasksChan, tasksChanClosed, errorsChan, errorsChanClosed, wg,
                 wstate, wtask, wval, dpc, di, spc, panicked, invoked, fnRets, sent>>

\* a start-up loop whose workers all get the one store made before the loop
MainSpawnWorkerSharedStore ==
  /\ pcMain = "spawn"
  /\ spawned < maxWorkers
  /\ spawned' = spawned + 1
  /\ wg' = wg + 1
  /\ wstate' = [wstate EXCEPT ![spawned + 1] = "select"]
  /\ stores' = (IF stores = <<>> THEN <<0>> ELSE stores)
  /\ wstore' = [wstore EXCEPT ![spawned + 1] = 1]
  /\ UNCHANGED <<seen, outcome, sentTask>>
  /\ UNCHANGED <<dbVars, clampVars>>
  /\ UNCHANGED <<tasks, maxWorkers, reqWorkers, cancelled, pcMain, chansMade,
                 tasksChan, tasksChanClosed, errorsChan, errorsChanClosed,
                 wtask, wval, dpc, di, spc, errs, panicked, invoked, fnRets, sent>>

\* a start-up loop that starts the workers without adding them to the WaitGroup
MainSpawnWorkerNoWgAdd ==
  /\ pcMain = "spawn"
  /\ spawned < maxWorkers
  /\ spawned' = spawned + 1
  /\ wstate' = [wstate EXCEPT ![spawned + 1] = "select"]
  /\ stores' = Append(stores, 0)
  /\ wstore' = [wstore EXCEPT ![spawned + 1] = Len(stores) + 1]
  /\ UNCHANGED <<seen, outcome, sentTask>>
  /\ UNCHANGED <<dbVars, clampVars>>
  /\ UNCHANGED <<tasks, maxWorkers, reqWorkers, cancelled, pcMain, chansMade,
                 tasksChan, tasksChanClosed, errorsChan, errorsChanClosed, wg,
                 wtask, wval, dpc, di, spc, errs, panicked, invoked, fnRets, sent>>

\* lines 24-39: one iteration of `for range maxWorkers`: wg.Go starts a worker,
\* which begins by making its store (line 26), a fresh empty map; the map is
\* local to the worker, so its creation is taken together with the start
MainSpawnWorker ==
  /\ pcMain = "spawn"
  /\ spawned < maxWorkers
  /\ spawned' = spawned + 1
  /\ wg' = wg + 1
  /\ wstate' = [wstate EXCEPT ![spawned + 1] = "select"]
  /\ stores' = Append(stores, 0)
  /\ wstore' = [wstore EXCEPT ![spawned + 1] = Len(stores) + 1]
  /\ UNCHANGED <<seen, outcome, sentTask>>
  /\ UNCHANGED <<dbVars, clampVars>>
  /\ UNCHANGED <<tasks, maxWorkers, reqWorkers, cancelled, pcMain, chansMade,
                 tasksChan, tasksChanClosed, errorsChan, errorsChanClosed,
                 wtask, wval, dpc, di, spc, errs, panicked, invoked, fnRets, sent>>

\* lines 41-50: the start-up loop is over; `go func()` starts the dispatcher
MainGoDispatcher ==
  /\ pcMain = "spawn"
  /\ ~(spawned < maxWorkers)
  /\ dpc' = "loop"
  /\ pcMain' = "goSupervisor"
  /\ UNCHANGED <<stores, wstore, seen, outcome, sentTask>>
  /\ UNCHANGED <<dbVars, clampVars>>
  /\ UNCHANGED <<tasks, maxWorkers, reqWorkers, cancelled, spawned, chansMade,
                 tasksChan, tasksChanClosed, errorsChan, errorsChanClosed, wg,
                 wstate, wtask, wval, di, spc, errs, panicked, invoked, fnRets, sent>>

\* lines 52-56: `go func()` starts the supervisor; errs := make([]error, 0, tasksLen)
MainGoSupervisor ==
  /\ pcMain = "goSupervisor"
  /\ spc' = "wait"
  /\ errs' = [isNil |-> FALSE, elems |-> <<>>]
  /\ pcMain' = "collect"
  /\ UNCHANGED <<stores, wstore, seen, outcome, sentTask>>
  /\ UNCHANGED <<dbVars, clampVars>>
  /\ UNCHANGED <<tasks, maxWorkers, reqWorkers, cancelled, spawned, chansMade,
                 tasksChan, tasksChanClosed, errorsChan, errorsChanClosed, wg,
                 wstate, wtask, wval, dpc, di, invoked, fnRets, sent, panicked>>

\* a collector that fills the slots of the closed channel with the context's error
RecvValueCtxErrFiller(ch) == IF ch # <<>> THEN Head(ch) ELSE CtxErr

\* a collector that records only success, dropping the received value
RecvValueDropped(ch) == NilErr

\* what a receive from errorsChan yields: the buffered head, or the zero
\* value (nil) once the channel is closed and drained
RecvValue(ch) == IF ch # <<>> THEN Head(ch) ELSE NilErr
RecvRest(ch) == IF ch # <<>> THEN Tail(ch) ELSE ch
RecvReady(ch, closed) == ch # <<>> \/ closed

\* a collector that puts each received value in front of the earlier ones
MainCollectPrepend ==
  /\ pcMain = "collect"
  /\ Len(errs.elems) < tasksLen
  /\ RecvReady(errorsChan, errorsChanClosed)
  /\ errs' = [errs EXCEPT !.elems = <<RecvValue(errorsChan)>> \o @]
  /\ errorsChan' = RecvRest(errorsChan)
  /\ UNCHANGED <<stores, wstore, seen, outcome, sentTask>>
  /\ UNCHANGED <<dbVars, clampVars>>
  /\ UNCHANGED <<tasks, maxWorkers, reqWorkers, cancelled, pcMain, spawned, chansMade,
                 tasksChan, tasksChanClosed, errorsChanClosed, wg,
                 wstate, wtask, wval, dpc, di, spc, panicked, invoked, fnRets, sent>>

\* a collector that takes the newest buffered value instead of the oldest
MainCollectLIFO ==
  /\ pcMain = "collect"
  /\ Len(errs.elems) < tasksLen
  /\ RecvReady(errorsChan, errorsChanClosed)
  /\ errs' = [errs EXCEPT !.elems =
                Append(@, IF errorsChan # <<>> THEN errorsChan[Len(errorsChan)] ELSE NilErr)]
  /\ errorsChan' = (IF errorsChan # <<>> THEN SubSeq(errorsChan, 1, Len(errorsChan) - 1)
                                         ELSE errorsChan)
  /\ UNCHANGED <<stores, wstore, seen, outcome, sentTask>>
  /\ UNCHANGED <<dbVars, clampVars>>
  /\ UNCHANGED <<tasks, maxWorkers, reqWorkers, cancelled, pcMain, spawned, chansMade,
                 tasksChan, tasksChanClosed, errorsChanClosed, wg,
                 wstate, wtask, wval, dpc, di, spc, panicked, invoked, fnRets, sent>>

\* lines 57-59: one iteration of `for range tasks`: errs = append(errs, <-errorsChan)
MainCollect ==
  /\ pcMain = "collect"
  /\ Len(errs.elems) < tasksLen
  /\ RecvReady(errorsChan, errorsChanClosed)
  /\ errs' = [errs EXCEPT !.elems = Append(@, RecvValue(errorsChan))]
  /\ errorsChan' = RecvRest(errorsChan)
  /\ UNCHANGED <<stores, wstore, seen, outcome, sentTask>>
  /\ UNCHANGED <<dbVars, clampVars>>
  /\ UNCHANGED <<tasks, maxWorkers, reqWorkers, cancelled, pcMain, spawned, chansMade,
                 tasksChan, tasksChanClosed, errorsChanClosed, wg,
                 wstate, wtask, wval, dpc, di, spc, panicked, invoked, fnRets, sent>>

\* a collector that stops as soon as errorsChan is closed and drained
MainReturnOnClose ==
  /\ pcMain = "collect"
  /\ \/ ~(Len(errs.elems) < tasksLen)
     \/ (errorsChan = <<>> /\ errorsChanClosed)
  /\ pcMain' = "done"
  /\ UNCHANGED <<stores, wstore, seen, outcome, sentTask>>
  /\ UNCHANGED <<dbVars, clampVars>>
  /\ UNCHANGED <<tasks, maxWorkers, reqWorkers, cancelled, spawned, chansMade,
                 tasksChan, tasksChanClosed, errorsChan, errorsChanClosed, wg,
                 wstate, wtask, wval, dpc, di, spc, errs, panicked, invoked, fnRets, sent>>

\* line 61: return errs
MainReturn ==
  /\ pcMain = "collect"
  /\ ~(Len(errs.elems) < tasksLen)
  /\ pcMain' = "done"
  /\ UNCHANGED <<stores, wstore, seen, outcome, sentTask>>
  /\ UNCHANGED <<dbVars, clampVars>>
  /\ UNCHANGED <<tasks, maxWorkers, reqWorkers, cancelled, spawned, chansMade,
                 tasksChan, tasksChanClosed, errorsChan, errorsChanClosed, wg,
                 wstate, wtask, wval, dpc, di, spc, errs, panicked, invoked, fnRets, sent>>

\* ---- a worker (lines 25-38) ----
\* a worker that reports the cancellation as an outcome when it leaves
WorkerCtxDoneSendsErr(w) ==
  /\ wstate[w] = "select"
  /\ cancelled
  /\ wstate' = [wstate EXCEPT ![w] = "exited"]
  /\ wg' = wg - 1
  /\ errorsChan' = Append(errorsChan, CtxErr)
  /\ sent' = Append(sent, CtxErr)
  /\ sentTask' = Append(sentTask, wtask[w])
  /\ UNCHANGED <<stores, wstore, seen, outcome>>
  /\ UNCHANGED <<dbVars, clampVars>>
  /\ UNCHANGED <<tasks, maxWorkers, reqWorkers, cancelled, pcMain, spawned, chansMade,
                 tasksChan, tasksChanClosed, errorsChanClosed,
                 wtask, wval, dpc, di, spc, errs, panicked, invoked, fnRets>>

\* a worker that leaves on cancellation without wg.Done
WorkerCtxDoneNoWgDone(w) ==
  /\ wstate[w] = "select"
  /\ cancelled
  /\ wstate' = [wstate EXCEPT ![w] = "exited"]
  /\ UNCHANGED <<stores, wstore, seen, outcome, sentTask>>
  /\ UNCHANGED <<dbVars, clampVars>>
  /\ UNCHANGED <<tasks, maxWorkers, reqWorkers, cancelled, pcMain, spawned, chansMade,
                 tasksChan, tasksChanClosed, errorsChan, errorsChanClosed, wg,
                 wtask, wval, dpc, di, spc, errs, panicked, invoked, fnRets, sent>>

\* line 29-30: the select takes `case <-ctx.Done()`: return (wg.Go calls wg.Done)
WorkerCtxDone(w) ==
  /\ wstate[w] = "select"
  /\ cancelled
  /\ wstate' = [wstate EXCEPT ![w] = "exited"]
  /\ wg' = wg - 1
  /\ UNCHANGED <<stores, wstore, seen, outcome, sentTask>>
  /\ UNCHANGED <<dbVars, clampVars>>
  /\ UNCHANGED <<tasks, maxWorkers, reqWorkers, cancelled, pcMain, spawned, chansMade,
                 tasksChan, tasksChanClosed, errorsChan, errorsChanClosed,
                 wtask, wval, dpc, di, spc, errs, panicked, invoked, fnRets, sent>>

\* a worker that takes the newest queued task instead of the oldest
WorkerTakeTaskLIFO(w) ==
  /\ wstate[w] = "select"
  /\ tasksChan # <<>>
  /\ wtask' = [wtask EXCEPT ![w] = tasksChan[Len(tasksChan)]]
  /\ tasksChan' = SubSeq(tasksChan, 1, Len(tasksChan) - 1)
  /\ invoked' = [invoked EXCEPT ![tasksChan[Len(tasksChan)]] = @ + 1]
  /\ wstate' = [wstate EXCEPT ![w] = "running"]
  /\ stores' = [stores EXCEPT ![wstore[w]] = @ + 1]
  /\ seen' = Append(seen, [task |-> tasksChan[Len(tasksChan)], worker |-> w,
                           store |-> wstore[w], sum |-> stores[wstore[w]] + 1])
  /\ UNCHANGED <<wstore, outcome, sentTask>>
  /\ UNCHANGED <<dbVars, clampVars>>
  /\ UNCHANGED <<tasks, maxWorkers, reqWorkers, cancelled, pcMain, spawned, chansMade,
                 tasksChanClosed, errorsChan, errorsChanClosed, wg,
                 wval, dpc, di, spc, errs, panicked, fnRets, sent>>

\* a worker that makes a new store for every task
WorkerTakeTaskFreshStore(w) ==
  /\ wstate[w] = "select"
  /\ tasksChan # <<>>
  /\ wtask' = [wtask EXCEPT ![w] = Head(tasksChan)]
  /\ tasksChan' = Tail(tasksChan)
  /\ invoked' = [invoked EXCEPT ![Head(tasksChan)] = @ + 1]
  /\ wstate' = [wstate EXCEPT ![w] = "running"]
  /\ stores' = Append(stores, 1)
  /\ wstore' = [wstore EXCEPT ![w] = Len(stores) + 1]
  /\ seen' = Append(seen, [task |-> Head(tasksChan), worker |-> w,
                           store |-> Len(stores) + 1, sum |-> 1])
  /\ UNCHANGED <<outcome, sentTask>>
  /\ UNCHANGED <<dbVars, clampVars>>
  /\ UNCHANGED <<tasks, maxWorkers, reqWorkers, cancelled, pcMain, spawned, chansMade,
                 tasksChanClosed, errorsChan, errorsChanClosed, wg,
                 wval, dpc, di, spc, errs, panicked, fnRets, sent>>

\* a worker that reads the head of the queue without removing it
WorkerTakeTaskPeek(w) ==
  /\ wstate[w] = "select"
  /\ tasksChan # <<>>
  /\ wtask' = [wtask EXCEPT ![w] = Head(tasksChan)]
  /\ invoked' = [invoked EXCEPT ![Head(tasksChan)] = @ + 1]
  /\ wstate' = [wstate EXCEPT ![w] = "running"]
  /\ stores' = [stores EXCEPT ![wstore[w]] = @ + 1]
  /\ seen' = Append(seen, [task |-> Head(tasksChan), worker |-> w,
                           store |-> wstore[w], sum |-> stores[wstore[w]] + 1])
  /\ UNCHANGED <<wstore, outcome, sentTask>>
  /\ UNCHANGED <<dbVars, clampVars>>
  /\ UNCHANGED <<tasks, maxWorkers, reqWorkers, cancelled, pcMain, spawned, chansMade,
                 tasksChan, tasksChanClosed, errorsChan, errorsChanClosed, wg,
                 wval, dpc, di, spc, errs, panicked, fnRets, sent>>

\* line 31, 35: the select takes `case task, ok := <-tasksChan` with ok: fn is invoked.
\* A select with several ready cases picks any of them, so this is enabled
\* whether or not the context is cancelled.
WorkerTakeTask(w) ==
  /\ wstate[w] = "select"
  /\ tasksChan # <<>>
  /\ wtask' = [wtask EXCEPT ![w] = Head(tasksChan)]
  /\ tasksChan' = Tail(tasksChan)
  /\ invoked' = [invoked EXCEPT ![Head(tasksChan)] = @ + 1]
  /\ wstate' = [wstate EXCEPT ![w] = "running"]
  /\ stores' = [stores EXCEPT ![wstore[w]] = @ + 1]
  /\ seen' = Append(seen, [task |-> Head(tasksChan), worker |-> w,
                           store |-> wstore[w], sum |-> stores[wstore[w]] + 1])
  /\ UNCHANGED <<wstore, outcome, sentTask>>
  /\ UNCHANGED <<dbVars, clampVars>>
  /\ UNCHANGED <<tasks, maxWorkers, reqWorkers, cancelled, pcMain, spawned, chansMade,
                 tasksChanClosed, errorsChan, errorsChanClosed, wg,
                 wval, dpc, di, spc, errs, panicked, fnRets, sent>>

\* lines 31-34: the receive yields !ok (closed and drained): return
WorkerChanClosed(w) ==
  /\ wstate[w] = "select"
  /\ tasksChan = <<>>
  /\ tasksChanClosed
  /\ wstate' = [wstate EXCEPT ![w] = "exited"]
  /\ wg' = wg - 1
  /\ UNCHANGED <<stores, wstore, seen, outcome, sentTask>>
  /\ UNCHANGED <<dbVars, clampVars>>
  /\ UNCHANGED <<tasks, maxWorkers, reqWorkers, cancelled, pcMain, spawned, chansMade,
                 tasksChan, tasksChanClosed, errorsChan, errorsChanClosed,
                 wtask, wval, dpc, di, spc, errs, panicked, invoked, fnRets, sent>>

\* line 35: the invocation fn(ctx, task, store) returns a value
FnReturn(w) ==
  /\ wstate[w] = "running"
  /\ \E r \in FnResults(cancelled) :
       /\ wval' = [wval EXCEPT ![w] = r]
       /\ fnRets' = fnRets (+) SetToBag({r})
       /\ outcome' = [outcome EXCEPT ![wtask[w]] = r]
  /\ wstate' = [wstate EXCEPT ![w] = "send"]
  /\ UNCHANGED <<stores, wstore, seen, sentTask>>
  /\ UNCHANGED <<dbVars, clampVars>>
  /\ UNCHANGED <<tasks, maxWorkers, reqWorkers, cancelled, pcMain, spawned, chansMade,
                 tasksChan, tasksChanClosed, errorsChan, errorsChanClosed, wg,
                 wtask, dpc, di, spc, errs, panicked, invoked, sent>>

\* line 35: errorsChan <- value; blocks while the buffer is full, panics when closed
WorkerSend(w) ==
  /\ wstate[w] = "send"
  /\ IF errorsChanClosed
       THEN /\ panicked' = TRUE
            /\ wstate' = [wstate EXCEPT ![w] = "exited"]
            /\ UNCHANGED <<errorsChan, sent, sentTask, wval>>
       ELSE /\ Len(errorsChan) < ChanCap
            /\ errorsChan' = Append(errorsChan, wval[w])
            /\ sent' = Append(sent, wval[w])
            /\ sentTask' = Append(sentTask, wtask[w])
            /\ wval' = [wval EXCEPT ![w] = NilErr]
            /\ wstate' = [wstate EXCEPT ![w] = "select"]
            /\ UNCHANGED panicked
  /\ UNCHANGED <<stores, wstore, seen, outcome>>
  /\ UNCHANGED <<dbVars, clampVars>>
  /\ UNCHANGED <<tasks, maxWorkers, reqWorkers, cancelled, pcMain, spawned, chansMade,
                 tasksChan, tasksChanClosed, errorsChanClosed, wg,
                 wtask, dpc, di, spc, errs, invoked, fnRets>>

\* ---- the dispatcher (lines 41-50) ----
\* a dispatcher that returns on cancellation without closing the queue
DispatchCtxDoneNoClose ==
  /\ dpc = "loop"
  /\ di <= tasksLen
  /\ cancelled
  /\ dpc' = "exited"
  /\ UNCHANGED <<stores, wstore, seen, outcome, sentTask>>
  /\ UNCHANGED <<dbVars, clampVars>>
  /\ UNCHANGED <<tasks, maxWorkers, reqWorkers, cancelled, pcMain, spawned, chansMade,
                 tasksChan, tasksChanClosed, errorsChan, errorsChanClosed, wg,
                 wstate, wtask, wval, di, spc, errs, panicked, invoked, fnRets, sent>>

\* lines 45-46 with the deferred close of line 42
DispatchCtxDone ==
  /\ dpc = "loop"
  /\ di <= tasksLen
  /\ cancelled
  /\ tasksChanClosed' = TRUE
  /\ dpc' = "exited"
  /\ UNCHANGED <<stores, wstore, seen, outcome, sentTask>>
  /\ UNCHANGED <<dbVars, clampVars>>
  /\ UNCHANGED <<tasks, maxWorkers, reqWorkers, cancelled, pcMain, spawned, chansMade,
                 tasksChan, errorsChan, errorsChanClosed, wg,
                 wstate, wtask, wval, di, spc, errs, panicked, invoked, fnRets, sent>>

\* a dispatcher that walks the input from its end
DispatchSendReversed ==
  /\ dpc = "loop"
  /\ di <= tasksLen
  /\ Len(tasksChan) < ChanCap
  /\ tasksChan' = Append(tasksChan, tasks[tasksLen - di + 1])
  /\ di' = di + 1
  /\ UNCHANGED <<stores, wstore, seen, outcome, sentTask>>
  /\ UNCHANGED <<dbVars, clampVars>>
  /\ UNCHANGED <<tasks, maxWorkers, reqWorkers, cancelled, pcMain, spawned, chansMade,
                 tasksChanClosed, errorsChan, errorsChanClosed, wg,
                 wstate, wtask, wval, dpc, spc, errs, panicked, invoked, fnRets, sent>>

\* line 47: tasksChan <- task
DispatchSend ==
  /\ dpc = "loop"
  /\ di <= tasksLen
  /\ Len(tasksChan) < ChanCap
  /\ tasksChan' = Append(tasksChan, tasks[di])
  /\ di' = di + 1
  /\ UNCHANGED <<stores, wstore, seen, outcome, sentTask>>
  /\ UNCHANGED <<dbVars, clampVars>>
  /\ UNCHANGED <<tasks, maxWorkers, reqWorkers, cancelled, pcMain, spawned, chansMade,
                 tasksChanClosed, errorsChan, errorsChanClosed, wg,
                 wstate, wtask, wval, dpc, spc, errs, panicked, invoked, fnRets, sent>>

\* a dispatcher that ends its loop without closing the queue
DispatchFinishNoClose ==
  /\ dpc = "loop"
  /\ ~(di <= tasksLen)
  /\ dpc' = "exited"
  /\ UNCHANGED <<stores, wstore, seen, outcome, sentTask>>
  /\ UNCHANGED <<dbVars, clampVars>>
  /\ UNCHANGED <<tasks, maxWorkers, reqWorkers, cancelled, pcMain, spawned, chansMade,
                 tasksChan, tasksChanClosed, errorsChan, errorsChanClosed, wg,
                 wstate, wtask, wval, di, spc, errs, panicked, invoked, fnRets, sent>>

\* the range loop is over: the deferred close(tasksChan) runs
DispatchFinish ==
  /\ dpc = "loop"
  /\ ~(di <= tasksLen)
  /\ tasksChanClosed' = TRUE
  /\ dpc' = "exited"
  /\ UNCHANGED <<stores, wstore, seen, outcome, sentTask>>
  /\ UNCHANGED <<dbVars, clampVars>>
  /\ UNCHANGED <<tasks, maxWorkers, reqWorkers, cancelled, pcMain, spawned, chansMade,
                 tasksChan, errorsChan, errorsChanClosed, wg,
                 wstate, wtask, wval, di, spc, errs, panicked, invoked, fnRets, sent>>

\* ---- the supervisor (lines 52-55) ----
\* a supervisor that does not wait for the workers
SupervisorNoWait ==
  /\ spc = "wait"
  /\ spc' = "close"
  /\ UNCHANGED <<stores, wstore, seen, outcome, sentTask>>
  /\ UNCHANGED <<dbVars, clampVars>>
  /\ UNCHANGED <<tasks, maxWorkers, reqWorkers, cancelled, pcMain, spawned, chansMade,
                 tasksChan, tasksChanClosed, errorsChan, errorsChanClosed, wg,
                 wstate, wtask, wval, dpc, di, errs, panicked, invoked, fnRets, sent>>

\* line 53: wg.Wait() returns when the counter is zero
SupervisorWait ==
  /\ spc = "wait"
  /\ wg = 0
  /\ spc' = "close"
  /\ UNCHANGED <<stores, wstore, seen, outcome, sentTask>>
  /\ UNCHANGED <<dbVars, clampVars>>
  /\ UNCHANGED <<tasks, maxWorkers, reqWorkers, cancelled, pcMain, spawned, chansMade,
                 tasksChan, tasksChanClosed, errorsChan, errorsChanClosed, wg,
                 wstate, wtask, wval, dpc, di, errs, panicked, invoked, fnRets, sent>>

\* line 54: close(errorsChan)
SupervisorClose ==
  /\ spc = "close"
  /\ errorsChanClosed' = TRUE
  /\ panicked' = (panicked \/ errorsChanClosed)
  /\ spc' = "exited"
  /\ UNCHANGED <<stores, wstore, seen, outcome, sentTask>>
  /\ UNCHANGED <<dbVars, clampVars>>
  /\ UNCHANGED <<tasks, maxWorkers, reqWorkers, cancelled, pcMain, spawned, chansMade,
                 tasksChan, tasksChanClosed, errorsChan, wg,
                 wstate, wtask, wval, dpc, di, errs, invoked, fnRets, sent>>

Next ==
  \/ Cancel
  \/ MainEntry
  \/ MainSpawnWorker
  \/ MainGoDispatcher
  \/ MainGoSupervisor
  \/ MainCollect
  \/ MainReturn
  \/ \E w \in WorkerIds : WorkerCtxDone(w)
  \/ \E w \in WorkerIds : WorkerTakeTask(w)
  \/ \E w \in WorkerIds : WorkerChanClosed(w)
  \/ \E w \in WorkerIds : FnReturn(w)
  \/ \E w \in WorkerIds : WorkerSend(w)
  \/ DispatchCtxDone
  \/ DispatchSend
  \/ DispatchFinish
  \/ SupervisorWait
  \/ SupervisorClose

Spec == Init /\ [][Next]_vars

\* ---- the context-free RunWorkerPool (part_000) ----
\* line 10: maxWorkers = min(max(maxWorkers, 1), tasksLen)
SimpleWorkers(n, mw) == Min(Max(mw, 1), n)

\* ---- scheduling ----
\* the steps of each goroutine; the Go scheduler runs every runnable goroutine
\* eventually, and every invocation of fn is taken to return (FnReturn)
MainStep ==
  MainEntry \/ MainSpawnWorker \/ MainGoDispatcher \/ MainGoSupervisor \/ MainCollect \/ MainReturn
WorkerStep(w) ==
  WorkerCtxDone(w) \/ WorkerTakeTask(w) \/ WorkerChanClosed(w) \/ FnReturn(w) \/ WorkerSend(w)
DispatcherStep == DispatchCtxDone \/ DispatchSend \/ DispatchFinish
SupervisorStep == SupervisorWait \/ SupervisorClose

ProgramStep ==
  MainStep \/ (\E w \in WorkerIds : WorkerStep(w)) \/ DispatcherStep \/ SupervisorStep

\* while some goroutine can take a step, one of them eventually does: this
\* follows from (and asks less than) every runnable goroutine being run
\* eventually; cancellation is the caller's and is under no obligation
Fairness == WF_vars(ProgramStep)

FairSpec == Init /\ [][Next]_vars /\ Fairness

\* ---- the database context (go/db GormDBCtx) ----
DBModeSQLite == "sqlite"
DBModeMySQL == "mysql"
DBModePostgreSQL == "postgresql"

\* the errors ConnectToSQLite returns: its own pre-check error, and those of
\* gorm.Open (write handle), DB(), gorm.Open (read handle) and Exec
ErrMemoryMode == "memory mode not allowed"
OpenErrs == {"open w failed", "conn w failed", "open r failed", "exec failed"}

\* paths, as the sequence of their parts: ":memory:" is <<":memory:">> and
\* "file::memory:?cache=shared" is <<"file:", ":memory:", "?cache=shared">>
MemoryPath == <<":memory:">>
FileMemoryPrefix == <<"file:", ":memory:">>
Paths ==
  { MemoryPath, FileMemoryPrefix, <<"file:", ":memory:", "?cache=shared">>,
    <<"file:", "data.db">>, <<"data.db">>, <<":memory:", "x">> }

\* strings.HasPrefix
HasPrefix(str, prefix) ==
  Len(prefix) <= Len(str) /\ SubSeq(str, 1, Len(prefix)) = prefix

\* a check that knows the plain ":memory:" only
IsMemoryPathExactOnly(path) == path = MemoryPath

\* line 171: path == ":memory:" || strings.HasPrefix(path, "file::memory:")
IsMemoryPath(path) == path = MemoryPath \/ HasPrefix(path, FileMemoryPrefix)

\* connections opened by a call that ends with the given error: the write
\* handle is open once gorm.Open succeeded, the read handle after the second
OpenedBy(err) ==
  IF err = "open w failed" THEN 0
  ELSE IF err \in {"conn w failed", "open r failed"} THEN 1
  ELSE 2

\* the idle worker pool the database context is exercised next to
PoolIdle ==
  /\ tasks = <<>>
  /\ maxWorkers = 0
  /\ reqWorkers = 0
  /\ cancelled = FALSE
  /\ pcMain = "entry"
  /\ spawned = 0
  /\ chansMade = FALSE
  /\ tasksChan = <<>> /\ tasksChanClosed = FALSE
  /\ errorsChan = <<>> /\ errorsChanClosed = FALSE
  /\ wg = 0
  /\ wstate = [w \in WorkerIds |-> "unborn"]
  /\ wtask = [w \in WorkerIds |-> 0]
  /\ wval = [w \in WorkerIds |-> NilErr]
  /\ dpc = "unborn" /\ di = 1
  /\ spc = "unborn"
  /\ errs = [isNil |-> TRUE, elems |-> <<>>]
  /\ panicked = FALSE
  /\ invoked = [t \in TaskIds |-> 0]
  /\ fnRets = EmptyBag
  /\ sent = <<>>
  /\ stores = <<>>
  /\ wstore = [w \in WorkerIds |-> 0]
  /\ seen = <<>>
  /\ outcome = [t \in TaskIds |-> "none"]
  /\ sentTask = <<>>

\* new(GormDBCtx), possibly after SetDBMode, with AllowMemoryMode as the caller set it
DbInit ==
  /\ PoolIdle
  /\ ClampIdle
  /\ dbR = 0 /\ dbW = 0
  /\ dbMode \in {"", DBModeSQLite, DBModeMySQL, DBModePostgreSQL}
  /\ allowMemoryMode \in BOOLEAN
  /\ dbOpens = 0
  /\ dbCalls = 0
  /\ dbPath = <<>>
  /\ dbRet = "none"
  /\ dbOp = "none"
  /\ dbCloses = <<>>
  /\ dialTimeoutSet = FALSE
  /\ numLeaked = 0
  /\ dbPc = "idle"
  /\ gstate = [c \in 1..MaxDbCalls |-> "unborn"]
  /\ gres = [c \in 1..MaxDbCalls |-> [db |-> 0, err |-> NilErr]]
  /\ resChan = [c \in 1..MaxDbCalls |-> <<>>]

\* the caller assigns the exported field AllowMemoryMode
SetAllowMemoryMode(b) ==
  /\ dbPc = "idle"
  /\ allowMemoryMode # b
  /\ allowMemoryMode' = b
  /\ UNCHANGED <<dbR, dbW, dbMode, dbOpens, dbCalls, dbPath, dbRet>>
  /\ UNCHANGED <<dbOp, dbCloses, dialTimeoutSet, numLeaked, dbPc, gstate, gres, resChan>>
  /\ UNCHANGED <<poolVars, clampVars>>

\* lines 167-225: ConnectToSQLite(path); the outcome of the opens is the driver's
ConnectToSQLite(path) ==
  /\ dbPc = "idle"
  /\ dbCalls < MaxDbCalls
  /\ dbCalls' = dbCalls + 1
  /\ dbPath' = path
  /\ dbOp' = "ConnectToSQLite"
  /\ dbMode' = DBModeSQLite
  /\ IF ~allowMemoryMode /\ IsMemoryPath(path)
       THEN /\ dbRet' = ErrMemoryMode
            /\ UNCHANGED <<dbR, dbW, dbOpens, dbCloses>>
       ELSE \E res \in OpenErrs \cup {NilErr} :
              /\ dbRet' = res
              /\ dbOpens' = dbOpens + OpenedBy(res)
              /\ dbCloses' = dbCloses \o [i \in 1..OpenedBy(res) |-> 0]
              /\ IF res = NilErr
                   THEN dbW' = dbOpens + 1 /\ dbR' = dbOpens + 2
                   ELSE UNCHANGED <<dbR, dbW>>
  /\ UNCHANGED allowMemoryMode
  /\ UNCHANGED <<dialTimeoutSet, numLeaked, dbPc, gstate, gres, resChan>>
  /\ UNCHANGED <<poolVars, clampVars>>

\* lines 98-104: SetDialTimeout(timeout); a nil or negative timeout is ignored
SetDialTimeout(isNil, seconds) ==
  /\ dbPc = "idle"
  /\ dialTimeoutSet' = (dialTimeoutSet \/ (~isNil /\ seconds >= 0))
  /\ UNCHANGED <<dbR, dbW, dbMode, allowMemoryMode, dbOpens, dbCalls, dbPath, dbRet>>
  /\ UNCHANGED <<dbOp, dbCloses, numLeaked, dbPc, gstate, gres, resChan>>
  /\ UNCHANGED <<poolVars, clampVars>>

\* the errors of ConnectToMySQL: those of the TLS set-up (lines 250-283),
\* the one of gorm.Open, and its own on timeout (line 318)
ErrSetup == "tls setup failed"
ErrOpen == "open failed"
ErrTimeout == "database connection timeout"

\* line 297: resChan := make(chan result, 1)
ResChanCap == 1

\* lines 227-313 and 327-344: ConnectToMySQL up to its select (with a dial
\* timeout), or to its end (TLS set-up failed, or no dial timeout)
ConnectToMySQL(setup) ==
  /\ dbPc = "idle"
  /\ dbCalls < MaxDbCalls
  /\ dbCalls' = dbCalls + 1
  /\ dbPath' = <<>>
  /\ dbOp' = "ConnectToMySQL"
  /\ dbMode' = DBModeMySQL
  /\ IF setup # NilErr
       THEN /\ dbRet' = setup
            /\ UNCHANGED <<dbR, dbW, dbOpens, dbCloses, dbPc, gstate>>
       ELSE IF dialTimeoutSet
         THEN /\ gstate' = [gstate EXCEPT ![dbCalls + 1] = "started"]
              /\ dbPc' = "select"
              /\ dbRet' = "pending"
              /\ UNCHANGED <<dbR, dbW, dbOpens, dbCloses>>
         ELSE /\ \E err \in {NilErr, ErrOpen} :
                   /\ dbRet' = err
                   /\ IF err = NilErr
                        THEN /\ dbOpens' = dbOpens + 1
                             /\ dbCloses' = Append(dbCloses, 0)
                             /\ dbR' = dbOpens + 1 /\ dbW' = dbOpens + 1
                        ELSE UNCHANGED <<dbR, dbW, dbOpens, dbCloses>>
              /\ UNCHANGED <<dbPc, gstate>>
  /\ UNCHANGED <<allowMemoryMode, dialTimeoutSet, numLeaked, gres, resChan>>
  /\ UNCHANGED <<poolVars, clampVars>>

\* lines 316-320: case <-timeoutCtx.Done(); the timer may fire at any moment
ConnectToMySQLTimeout ==
  /\ dbPc = "select"
  /\ dbPc' = "idle"
  /\ dbRet' = ErrTimeout
  /\ UNCHANGED <<dbR, dbW, dbMode, allowMemoryMode, dbOpens, dbCalls, dbPath>>
  /\ UNCHANGED <<dbOp, dbCloses, dialTimeoutSet, numLeaked, gstate, gres, resChan>>
  /\ UNCHANGED <<poolVars, clampVars>>

\* lines 321-325 and 333-343: case res := <-resChan
ConnectToMySQLResult ==
  /\ dbPc = "select"
  /\ resChan[dbCalls] # <<>>
  /\ resChan' = [resChan EXCEPT ![dbCalls] = Tail(@)]
  /\ dbPc' = "idle"
  /\ LET res == Head(resChan[dbCalls]) IN
       IF res.err # NilErr
         THEN dbRet' = res.err /\ UNCHANGED <<dbR, dbW>>
         ELSE dbRet' = NilErr /\ dbR' = res.db /\ dbW' = res.db
  /\ UNCHANGED <<dbMode, allowMemoryMode, dbOpens, dbCalls, dbPath>>
  /\ UNCHANGED <<dbOp, dbCloses, dialTimeoutSet, numLeaked, gstate, gres>>
  /\ UNCHANGED <<poolVars, clampVars>>

\* line 304: the goroutine of call c runs ctx.NumLeakedGoroutine.Add(1)
DialStart(c) ==
  /\ gstate[c] = "started"
  /\ numLeaked' = numLeaked + 1
  /\ gstate' = [gstate EXCEPT ![c] = "opening"]
  /\ UNCHANGED <<dbR, dbW, dbMode, allowMemoryMode, dbOpens, dbCalls, dbPath, dbRet>>
  /\ UNCHANGED <<dbOp, dbCloses, dialTimeoutSet, dbPc, gres, resChan>>
  /\ UNCHANGED <<poolVars, clampVars>>

\* lines 307-309: gorm.Open returns in the goroutine of call c
DialOpen(c) ==
  /\ gstate[c] = "opening"
  /\ gstate' = [gstate EXCEPT ![c] = "sending"]
  /\ \E err \in {NilErr, ErrOpen} :
       IF err = NilErr
         THEN /\ dbOpens' = dbOpens + 1
              /\ dbCloses' = Append(dbCloses, 0)
              /\ gres' = [gres EXCEPT ![c] = [db |-> dbOpens + 1, err |-> NilErr]]
         ELSE /\ gres' = [gres EXCEPT ![c] = [db |-> 0, err |-> err]]
              /\ UNCHANGED <<dbOpens, dbCloses>>
  /\ UNCHANGED <<dbR, dbW, dbMode, allowMemoryMode, dbCalls, dbPath, dbRet>>
  /\ UNCHANGED <<dbOp, dialTimeoutSet, numLeaked, dbPc, resChan>>
  /\ UNCHANGED <<poolVars, clampVars>>

\* line 310: resChan <- result{db, err}
DialSend(c) ==
  /\ gstate[c] = "sending"
  /\ Len(resChan[c]) < ResChanCap
  /\ resChan' = [resChan EXCEPT ![c] = Append(@, gres[c])]
  /\ gstate' = [gstate EXCEPT ![c] = "deferred"]
  /\ UNCHANGED <<dbR, dbW, dbMode, allowMemoryMode, dbOpens, dbCalls, dbPath, dbRet>>
  /\ UNCHANGED <<dbOp, dbCloses, dialTimeoutSet, numLeaked, dbPc, gres>>
  /\ UNCHANGED <<poolVars, clampVars>>

\* a goroutine that ends without the deferred decrement
DialExitNoDecrement(c) ==
  /\ gstate[c] = "deferred"
  /\ gstate' = [gstate EXCEPT ![c] = "done"]
  /\ UNCHANGED <<dbR, dbW, dbMode, allowMemoryMode, dbOpens, dbCalls, dbPath, dbRet>>
  /\ UNCHANGED <<dbOp, dbCloses, dialTimeoutSet, numLeaked, dbPc, gres, resChan>>
  /\ UNCHANGED <<poolVars, clampVars>>

\* line 305: the deferred ctx.NumLeakedGoroutine.Add(-1) runs, the goroutine ends
DialExit(c) ==
  /\ gstate[c] = "deferred"
  /\ numLeaked' = numLeaked - 1
  /\ gstate' = [gstate EXCEPT ![c] = "done"]
  /\ UNCHANGED <<dbR, dbW, dbMode, allowMemoryMode, dbOpens, dbCalls, dbPath, dbRet>>
  /\ UNCHANGED <<dbOp, dbCloses, dialTimeoutSet, dbPc, gres, resChan>>
  /\ UNCHANGED <<poolVars, clampVars>>

\* lines 137-149: closeDB(db). Its outcomes: "nil" (db == nil), "conn failed"
\* (db.DB() failed), "close failed" and "closed" (sqlDB.Close was called); a
\* sql.DB that was closed before answers a further Close with nil
CloseOutcomes(db, closes) ==
  IF db = 0 THEN {"nil"}
  ELSE IF closes[db] > 0 THEN {"conn failed", "closed"}
  ELSE {"conn failed", "close failed", "closed"}
CloseErr(o) == IF o \in {"nil", "closed"} THEN NilErr ELSE o
CloseCalled(db, closes, o) ==
  IF o \in {"close failed", "closed"} THEN [closes EXCEPT ![db] = @ + 1] ELSE closes

\* lines 136-165: Close()
Close ==
  /\ dbPc = "idle"
  /\ dbCalls < MaxDbCalls
  /\ dbCalls' = dbCalls + 1
  /\ dbPath' = <<>>
  /\ dbOp' = "Close"
  /\ \E o1 \in CloseOutcomes(dbR, dbCloses) :
       LET c1 == CloseCalled(dbR, dbCloses, o1) IN
       IF CloseErr(o1) # NilErr
         THEN /\ dbRet' = CloseErr(o1)
              /\ dbCloses' = c1
              /\ UNCHANGED <<dbR, dbW>>
         ELSE /\ dbR' = 0
              \* line 157 compares ctx.W with ctx.R after line 155 made R nil
              /\ IF dbW # 0
                   THEN \E o2 \in CloseOutcomes(dbW, c1) :
                          /\ dbCloses' = CloseCalled(dbW, c1, o2)
                          /\ dbRet' = CloseErr(o2)
                          /\ dbW' = IF CloseErr(o2) # NilErr THEN dbW ELSE 0
                   ELSE /\ dbCloses' = c1
                        /\ dbRet' = NilErr
                        /\ dbW' = 0
  /\ UNCHANGED <<dbMode, allowMemoryMode, dbOpens>>
  /\ UNCHANGED <<dialTimeoutSet, numLeaked, dbPc, gstate, gres, resChan>>
  /\ UNCHANGED <<poolVars, clampVars>>

DbNext ==
  \/ \E b \in BOOLEAN : SetAllowMemoryMode(b)
  \/ \E path \in Paths : ConnectToSQLite(path)
  \/ \E isNil \in BOOLEAN, seconds \in {-1, 0, 1} : SetDialTimeout(isNil, seconds)
  \/ \E setup \in {NilErr, ErrSetup} : ConnectToMySQL(setup)
  \/ ConnectToMySQLTimeout
  \/ ConnectToMySQLResult
  \/ \E c \in 1..MaxDbCalls : DialStart(c) \/ DialOpen(c) \/ DialSend(c) \/ DialExit(c)
  \/ Close

DbSpec == DbInit /\ [][DbNext]_vars

\* ---- utils.Clamp on its own ----
ClampInputs == (0 - ClampRange)..ClampRange

\* a caller about to call Clamp(value, minValue, maxValue)
ClampInit ==
  /\ PoolIdle
  /\ DbIdle
  /\ clampArgs \in [value : ClampInputs, minValue : ClampInputs, maxValue : ClampInputs]
  /\ clampDone = FALSE
  /\ clampRet = 0

\* part_002 lines 137-139: the call returns
ClampCall ==
  /\ ~clampDone
  /\ clampRet' = Clamp(clampArgs.value, clampArgs.minValue, clampArgs.maxValue)
  /\ clampDone' = TRUE
  /\ UNCHANGED clampArgs
  /\ UNCHANGED <<poolVars, dbVars>>

ClampNext == ClampCall

ClampSpec == ClampInit /\ [][ClampNext]_vars

\* ---- auxiliary operators of the properties ----
AllValues == {NilErr, CtxErr} \cup TaskErrs
Count(s, v) == Cardinality({i \in 1..Len(s) : s[i] = v})
Alive == Cardinality({w \in WorkerIds : wstate[w] \in {"select", "running", "send"}})
InFlight == {w \in WorkerIds : wstate[w] \in {"running", "send"}}
Invocations == BagCardinality(fnRets) + Cardinality({w \in WorkerIds : wstate[w] = "running"})
StartupOver == pcMain \in {"goSupervisor", "collect", "done"}
Returned == pcMain = "done"

\* ---- properties ----

\* C1: for a non-empty task list the returned slice has exactly len(tasks)
\* elements, with or without cancellation (before or during the run).
C1_ReturnedLength ==
  (Returned /\ tasksLen > 0) => (~errs.isNil /\ Len(errs.elems) = tasksLen)
\* a cancelled run returns although fewer outcomes than tasks were produced
C1_Witness ==
  /\ Returned /\ tasksLen >= 2 /\ cancelled /\ reqWorkers >= 1
  /\ Len(sent) >= 1 /\ Len(sent) < tasksLen /\ Len(errs.elems) = tasksLen

\* C2: if every invocation of fn returns, the call eventually returns, for
\* every task list, worker count and timing of cancellation.
C2_Termination == <>Returned
\* the call has returned from a run cancelled while a worker was executing fn
C2_Witness ==
  Returned /\ tasksLen > 0 /\ cancelled /\ Count(errs.elems, CtxErr) > 0

\* C3: without cancellation fn is invoked exactly once for each task, for
\* every worker count and whatever the invocations return.
C3_ExactlyOnceNoCancel ==
  (Returned /\ ~cancelled) => \A t \in 1..tasksLen : invoked[t] = 1

\* C4: for a non-empty task list and a requested maxWorkers <= 0 exactly one
\* worker is started and the tasks are still executed.
C4_NonPositiveClampedToOne ==
  (tasksLen > 0 /\ reqWorkers <= 0 /\ StartupOver) =>
     /\ spawned = 1
     /\ (Returned /\ ~cancelled) => \A t \in 1..tasksLen : invoked[t] = 1

\* C5: for a requested maxWorkers >= 1 the number of workers started is
\* exactly min(maxWorkers, len(tasks)): it never exceeds that number, reaches
\* it when the start-up loop is over, and from then on the number of workers
\* alive never increases.
C5_StartedOK ==
  (tasksLen > 0 /\ reqWorkers >= 1) =>
     /\ spawned <= Min(reqWorkers, tasksLen)
     /\ Alive <= spawned
     /\ StartupOver => spawned = Min(reqWorkers, tasksLen)
C5_WorkerCount ==
  [][C5_StartedOK' /\ (StartupOver => (Alive' <= Alive /\ spawned' = spawned))]_vars
\* more workers requested than tasks: len(tasks) workers are running
C5_Witness ==
  StartupOver /\ tasksLen >= 2 /\ reqWorkers > tasksLen /\ spawned = tasksLen /\ Alive = tasksLen

\* C6: once the context is cancelled no worker starts a new invocation of fn.
C6_NoStartAfterCancel ==
  [][cancelled => invoked' = invoked]_vars

\* C7: fn is invoked at most once per task under every timing of cancellation:
\* no task is dequeued twice and the invocations never exceed len(tasks).
C7_AtMostOnce ==
  /\ \A t \in TaskIds : invoked[t] <= (IF t <= tasksLen THEN 1 ELSE 0)
  /\ Invocations <= tasksLen
  /\ \A v, w \in WorkerIds : (v # w /\ v \in InFlight /\ w \in InFlight) => wtask[v] # wtask[w]
\* a cancelled run that executed one task and skipped another
C7_Witness ==
  Returned /\ cancelled /\ (\E t, u \in 1..tasksLen : invoked[t] = 1 /\ invoked[u] = 0)

\* C8: for an empty task list the call returns an empty non-nil slice in its
\* first step, never invokes fn and creates no channel or goroutine.
C8_EmptyTasks ==
  tasksLen = 0 =>
     /\ pcMain \in {"entry", "done"}
     /\ Returned => (~errs.isNil /\ errs.elems = <<>>)
     /\ ~chansMade /\ spawned = 0 /\ wg = 0
     /\ \A w \in WorkerIds : wstate[w] = "unborn"
     /\ dpc = "unborn" /\ spc = "unborn"
     /\ Invocations = 0
C8_Witness ==
  tasksLen = 0 /\ Returned /\ ~errs.isNil

\* C9: without cancellation and with maxWorkers >= 1 the returned slice is a
\* permutation of the values fn returned over all tasks: every value occurs in
\* it as often as fn returned it.
C9_OutcomesArePermutation ==
  (Returned /\ ~cancelled /\ reqWorkers >= 1 /\ tasksLen > 0) =>
     /\ BagCardinality(fnRets) = tasksLen
     /\ \A v \in AllValues : Count(errs.elems, v) = CopiesIn(v, fnRets)
\* two tasks returned different values
C9_Witness ==
  /\ Returned /\ ~cancelled /\ reqWorkers >= 1 /\ tasksLen >= 2
  /\ Count(errs.elems, NilErr) > 0 /\ Count(errs.elems, "errA") > 0

\* C10: every outcome of an invocation that started is in the returned slice,
\* also those in flight at cancellation: at the return no invocation is still
\* running or unsent, and the slice holds the returned values plus one nil
\* filler for every task that never started.
C10_NoOutcomeLost ==
  Returned =>
     /\ InFlight = {}
     /\ \A v \in AllValues :
          Count(errs.elems, v) =
             CopiesIn(v, fnRets) + (IF v = NilErr THEN tasksLen - BagCardinality(fnRets) ELSE 0)
\* an invocation in flight at cancellation returned an error, another task never ran
C10_Witness ==
  /\ Returned /\ cancelled /\ tasksLen >= 2
  /\ Count(errs.elems, CtxErr) > 0 /\ Len(sent) = 1

\* C11: with exactly one worker and no cancellation the same store is passed
\* to every invocation and never reset: the count each task keeps in the
\* store reads k during the k-th executed task and N after the N-th.
C11_StorePersistsOneWorker ==
  (spawned = 1 /\ StartupOver /\ ~cancelled) =>
     /\ \A k \in 1..Len(seen) : seen[k].store = wstore[1] /\ seen[k].sum = k
     /\ stores[wstore[1]] = Len(seen)
     /\ Returned => (Len(seen) = tasksLen /\ stores[wstore[1]] = tasksLen)
\* one worker ran two tasks, the second read 2
C11_Witness ==
  /\ Returned /\ ~cancelled /\ spawned = 1 /\ tasksLen >= 2
  /\ Len(seen) >= 2 /\ seen[2].sum = 2

\* C12: each worker makes exactly one store, empty at first, and is the only
\* one to pass it to fn: the stores of two workers differ, and the count a
\* task reads is one more than the number of earlier tasks of the same worker.
C12_StoresPrivate ==
  /\ Len(stores) = spawned
  /\ \A w \in WorkerIds : (wstore[w] # 0) <=> (wstate[w] # "unborn")
  /\ \A v, w \in WorkerIds : (v # w /\ wstore[v] # 0 /\ wstore[w] # 0) => wstore[v] # wstore[w]
  /\ \A k \in 1..Len(seen) :
       /\ seen[k].store = wstore[seen[k].worker]
       /\ seen[k].sum = 1 + Cardinality({j \in 1..(k - 1) : seen[j].worker = seen[k].worker})
\* two workers ran one task each and both read 1
C12_Witness ==
  /\ Len(seen) >= 2 /\ seen[1].worker # seen[2].worker
  /\ seen[1].sum = 1 /\ seen[2].sum = 1 /\ seen[1].store # seen[2].store

\* C13: a worker writes no outcome for a task it did not start: the values
\* sent are exactly the values of the invocations that returned (less those
\* whose send is pending), and a worker that exits sends nothing on exit.
C13_SentOK ==
  /\ Len(sent) + Cardinality({w \in WorkerIds : wstate[w] = "send"}) = BagCardinality(fnRets)
  /\ BagCardinality(fnRets) <= Len(seen)
  /\ \A v \in AllValues : Count(sent, v) <= CopiesIn(v, fnRets)
C13_NoBogusOutcome ==
  [][/\ C13_SentOK'
     /\ (\E w \in WorkerIds : wstate[w] = "select" /\ wstate'[w] = "exited") =>
           (sent' = sent /\ errorsChan' = errorsChan)]_vars
\* every worker has left on cancellation while a task was still queued
C13_Witness ==
  /\ cancelled /\ spawned >= 1 /\ Alive = 0 /\ tasksChan # <<>>
  /\ Len(sent) = 1 /\ tasksLen >= 2

\* C14: the returned slice is in completion order: its i-th element is the
\* i-th value sent on the outcome channel, wherever the task was in the input.
C14_CompletionOrder ==
  /\ \A i \in 1..Min(Len(errs.elems), Len(sent)) : errs.elems[i] = sent[i]
  /\ Returned => Len(sent) <= Len(errs.elems)
\* the outcome of the second task was sent, and is returned, first
C14_Witness ==
  /\ Returned /\ Len(sent) >= 2 /\ sent[1] # sent[2] /\ sentTask[1] = 2
  /\ errs.elems[1] = sent[1]

\* C15 (as stated): element i of the returned slice is the outcome of tasks[i].
C15_SubmissionOrder ==
  Returned => \A i \in 1..tasksLen : (outcome[i] # "none") => errs.elems[i] = outcome[i]
\* C15 (amended): element i of the returned slice is the outcome of the i-th
\* task to complete, each executed task once; it is the outcome of tasks[i]
\* only when the tasks complete in submission order.
C15_OutcomeOfCompletedTask ==
  Returned =>
     /\ \A i \in 1..Len(sentTask) : errs.elems[i] = outcome[sentTask[i]]
     /\ \A i, j \in 1..Len(sentTask) : (i # j) => sentTask[i] # sentTask[j]
     /\ \A t \in 1..tasksLen : (outcome[t] # "none") => \E i \in 1..Len(sentTask) : sentTask[i] = t
\* the tasks completed in the order 2, 1 with different outcomes
C15_Witness ==
  Returned /\ sentTask = <<2, 1>> /\ outcome[1] # outcome[2] /\ errs.elems[1] = outcome[2]

\* C16: when the call returns, every worker, the dispatcher and the supervisor
\* have terminated and both channels are closed.
C16_TornDownAtReturn ==
  (Returned /\ chansMade) =>
     /\ Alive = 0
     /\ dpc = "exited" /\ spc = "exited"
     /\ tasksChanClosed /\ errorsChanClosed

\* C18: the outcome channel is closed exactly once, by the supervisor, and
\* only after every worker has exited; no worker sends on it once closed.
C18_ClosedOK ==
  /\ ~panicked
  /\ errorsChanClosed => (spc = "exited" /\ StartupOver /\ Alive = 0 /\ wg = 0)
C18_ClosedOnceAfterWorkers ==
  [][/\ C18_ClosedOK'
     /\ (errorsChanClosed' # errorsChanClosed) =>
           (~errorsChanClosed /\ spc = "close" /\ spc' = "exited")
     /\ errorsChanClosed => sent' = sent]_vars
\* closed after two workers left, one of them having sent an outcome
C18_Witness ==
  errorsChanClosed /\ spawned >= 2 /\ Len(sent) >= 1 /\ cancelled

\* C19: the dispatcher closes the task queue exactly once on every path, after
\* the last push or when cancellation interrupts it; it does not stay blocked
\* on a send and sends nothing after the close.
C19_CloseOK ==
  /\ tasksChanClosed <=> (dpc = "exited")
  /\ tasksChanClosed => (di = tasksLen + 1 \/ cancelled)
C19_DispatcherCloses ==
  /\ [][/\ C19_CloseOK'
        /\ (tasksChanClosed' # tasksChanClosed) => (~tasksChanClosed /\ dpc = "loop")
        /\ tasksChanClosed => (di' = di /\ Len(tasksChan') <= Len(tasksChan))]_vars
  /\ ((dpc = "loop") ~> (dpc = "exited" /\ tasksChanClosed))
\* the dispatcher was interrupted between two pushes and closed the queue
C19_Witness ==
  tasksChanClosed /\ dpc = "exited" /\ cancelled /\ di > 1 /\ di <= tasksLen

\* C20: tasks enter the queue in input order and leave it in the same order:
\* the tasks dequeued so far followed by the queue's content are the prefix
\* of the input the dispatcher has pushed.
C20_DispatchOrder ==
  /\ di <= tasksLen + 1
  /\ [k \in 1..Len(seen) |-> seen[k].task] \o tasksChan = SubSeq(tasks, 1, di - 1)
  /\ \A j, k \in 1..Len(seen) : (j < k) => seen[j].task < seen[k].task
\* the first task is dequeued while the second is still queued
C20_Witness ==
  Len(seen) = 1 /\ seen[1].task = 1 /\ tasksChan = <<2>> /\ di = tasksLen + 1

\* C17: ConnectToSQLite with an in-memory path (":memory:" or one that starts
\* with "file::memory:") and AllowMemoryMode false returns "memory mode not
\* allowed", opens no connection and leaves R and W as they were; with
\* AllowMemoryMode true the call is not rejected with that error.
C17_InMemory(path) ==
  \/ (Len(path) = 1 /\ path[1] = ":memory:")
  \/ (Len(path) >= 2 /\ path[1] = "file:" /\ path[2] = ":memory:")
C17_MemoryModePrecheck ==
  [][(dbCalls' = dbCalls + 1 /\ C17_InMemory(dbPath')) =>
        IF ~allowMemoryMode
          THEN dbRet' = ErrMemoryMode /\ dbOpens' = dbOpens /\ dbR' = dbR /\ dbW' = dbW
          ELSE dbRet' # ErrMemoryMode]_vars
\* a connected context rejected a later in-memory path and kept its handles
C17_Witness ==
  /\ dbRet = ErrMemoryMode /\ ~allowMemoryMode
  /\ dbPath = <<"file:", ":memory:", "?cache=shared">>
  /\ dbR # 0 /\ dbW # 0 /\ dbOpens = 2

\* C21: the task queue never holds more than len(tasks) elements, its
\* capacity, so the dispatcher's send is always enabled and a dispatcher that
\* is not cancelled completes all len(tasks) pushes.
C21_QueueNeverFull ==
  /\ chansMade => ChanCap = tasksLen
  /\ Len(tasksChan) <= tasksLen
  /\ (dpc = "loop" /\ di <= tasksLen) => Len(tasksChan) < ChanCap
  /\ (dpc = "exited" /\ ~cancelled) => di = tasksLen + 1
\* every task is queued before any worker has dequeued one
C21_Witness ==
  /\ ~cancelled /\ tasksLen >= 2 /\ Len(tasksChan) = tasksLen
  /\ dpc = "exited" /\ seen = <<>>

\* C22: the outcome channel never buffers more than len(tasks) values, its
\* capacity, so a worker's send never blocks, even before the collector has
\* received anything.
C22_OutcomeSendNeverBlocks ==
  /\ chansMade => ChanCap = tasksLen
  /\ Len(errorsChan) <= tasksLen
  /\ \A w \in WorkerIds : (wstate[w] = "send") => Len(errorsChan) < ChanCap
\* every outcome is buffered and the collector has received nothing yet
C22_Witness ==
  tasksLen >= 2 /\ Len(errorsChan) = tasksLen /\ errs.elems = <<>>

\* C23: when only k < len(tasks) invocations happened, the returned slice is
\* the k real outcomes in completion order followed by len(tasks) - k nil
\* entries: a filler is always nil and never precedes a real outcome.
C23_FillersAreNilAtEnd ==
  Returned =>
     /\ Len(sent) = Len(seen) /\ Len(sent) <= tasksLen
     /\ errs.elems = sent \o [i \in 1..(tasksLen - Len(sent)) |-> NilErr]
\* a cancelled run: one real error, then the filler of the task that never ran
C23_Witness ==
  /\ Returned /\ cancelled /\ tasksLen = 2 /\ Len(seen) = 1
  /\ errs.elems[1] # NilErr /\ errs.elems[2] = NilErr

\* C24: with exactly one worker and no cancellation the tasks are executed
\* one at a time in input order and element i of the returned slice is the
\* value fn returned for tasks[i].
C24_OneWorkerInOrder ==
  (spawned = 1 /\ StartupOver /\ ~cancelled) =>
     /\ Cardinality(InFlight) <= 1
     /\ \A k \in 1..Len(seen) : seen[k].task = tasks[k]
     /\ \A i \in 1..Len(sentTask) : sentTask[i] = tasks[i]
     /\ Returned => \A i \in 1..tasksLen : errs.elems[i] = outcome[i]
\* one worker, two tasks with different outcomes, each at its task's position
C24_Witness ==
  /\ Returned /\ ~cancelled /\ spawned = 1 /\ tasksLen >= 2
  /\ outcome[1] # outcome[2] /\ errs.elems[1] = outcome[1] /\ errs.elems[2] = outcome[2]

\* C25: if every invocation returns, every goroutine the call started (the
\* workers, the dispatcher, the supervisor) eventually terminates, also one
\* that is still running when the call returns.
C25_AllTerminated ==
  /\ \A w \in WorkerIds : wstate[w] \in {"unborn", "exited"}
  /\ (tasksLen > 0) => (dpc = "exited" /\ spc = "exited")
C25_GoroutinesTerminate == <>[](Returned /\ C25_AllTerminated)
\* the call has returned while a worker, the dispatcher and the supervisor run
C25_Witness ==
  Returned /\ Alive > 0 /\ dpc = "loop" /\ spc = "wait"

\* C26: with a context that is never cancelled the context-aware and the
\* context-free RunWorkerPool start the same number of workers, for every
\* maxWorkers value, including non-positive ones.
C26_SameWorkersAsContextFree ==
  (tasksLen > 0 /\ StartupOver /\ ~cancelled) =>
     spawned = SimpleWorkers(tasksLen, reqWorkers)

\* C27: Close closes each underlying connection exactly once (a handle shared
\* by R and W is closed once, not twice); after Close returns nil both R and W
\* are nil; if closing R fails, Close returns that error with R and W unchanged.
C27_CloseOnce ==
  [][(dbCalls' = dbCalls + 1 /\ dbOp' = "Close") =>
        /\ \A h \in 1..Len(dbCloses) : dbCloses'[h] <= dbCloses[h] + 1
        /\ (dbRet' = NilErr) =>
              /\ dbR' = 0 /\ dbW' = 0
              /\ \A h \in {dbR, dbW} \ {0} : dbCloses'[h] = dbCloses[h] + 1
        /\ (dbRet' # NilErr /\ dbR' # 0) => (dbR' = dbR /\ dbW' = dbW)]_vars

\* C28: in ConnectToMySQL with a dial timeout, on timeout the call returns
\* "database connection timeout" with R and W unchanged; the goroutine's send
\* of its result never blocks, also after the caller has left; and
\* NumLeakedGoroutine counts the goroutines between their start and their
\* end, so it is back at its prior value once every open attempt is over.
C28_Running == {c \in 1..MaxDbCalls : gstate[c] \in {"opening", "sending", "deferred"}}
C28_DialTimeout ==
  [][/\ (dbPc = "select" /\ dbPc' = "idle" /\ resChan' = resChan) =>
          (dbRet' = ErrTimeout /\ dbR' = dbR /\ dbW' = dbW)
     /\ \A c \in 1..MaxDbCalls :
          /\ (gstate'[c] = "sending") => Len(resChan'[c]) < ResChanCap
          /\ (gstate[c] = "started" /\ gstate'[c] # "started") => numLeaked' = numLeaked + 1
          /\ (gstate[c] # "done" /\ gstate'[c] = "done") => numLeaked' = numLeaked - 1
     /\ numLeaked' = Cardinality(C28_Running')
     /\ (\A c \in 1..MaxDbCalls : gstate'[c] \in {"unborn", "done"}) => numLeaked' = 0]_vars
\* a connected context timed out in a later ConnectToMySQL and kept its
\* handles; the goroutine then opened a connection, delivered it to nobody
\* and ended
C28_Witness ==
  /\ dbRet = ErrTimeout /\ dbPc = "idle" /\ dbR # 0 /\ dbW # 0 /\ dbCalls >= 2
  /\ gstate[dbCalls] = "done" /\ Len(resChan[dbCalls]) = 1
  /\ gres[dbCalls].err = NilErr /\ gres[dbCalls].db \notin {dbR, dbW}
  /\ numLeaked = 0

\* C29: Clamp(value, minValue, maxValue) with minValue <= maxValue returns
\* value when it lies in [minValue, maxValue], minValue when value is below
\* and maxValue when value is above, so the result is always in the range.
C29_ClampInRange ==
  (clampDone /\ clampArgs.minValue <= clampArgs.maxValue) =>
     /\ clampRet = (IF clampArgs.value < clampArgs.minValue THEN clampArgs.minValue
                    ELSE IF clampArgs.value > clampArgs.maxValue THEN clampArgs.maxValue
                    ELSE clampArgs.value)
     /\ clampArgs.minValue <= clampRet /\ clampRet <= clampArgs.maxValue
\* a value above the range came back as the upper bound
C29_Witness ==
  /\ clampDone /\ clampArgs.minValue < clampArgs.maxValue
  /\ clampArgs.value > clampArgs.maxValue /\ clampRet = clampArgs.maxValue

TypeOK ==
  /\ pcMain \in {"entry", "spawn", "goSupervisor", "collect", "done"}
  /\ wg \in Int
  /\ \A w \in WorkerIds : wstate[w] \in {"unborn", "select", "running", "send", "exited"}
====
